---------------------------- MODULE Spec2Model ----------------------------
(***************************************************************************)
(* Model of t3vip/occ_map/OccMap_cuda_kernel.cu: the two-pass forward      *)
(* projection with depth test (projectPointsAndDepthTest, refineOutput),   *)
(* the backward gradient scatter (projectionGradient) and the two host     *)
(* launchers (OccMap_cuda_forward, OccMap_cuda_backward).                  *)
(*                                                                         *)
(* Numbers.  A float is modelled by an integer count of 1/Scale units.     *)
(* The inputs are dyadic values chosen so that every float operation of    *)
(* the kernels (x/z, *fx, +cx, pow(z,2), ...) is exact in IEEE-754 single  *)
(* precision, hence the integer arithmetic below computes what the device  *)
(* computes.  HUGE_VALF stands for +infinity; the input depths are finite, *)
(* the sentinel being a value above any legal depth.  Memory is a flat     *)
(* array of floats per buffer, addressed with the strides the launchers    *)
(* pass.                                                                   *)
(*                                                                         *)
(* Threads.  One thread (work item) per grid cell and per kernel.  Every   *)
(* access to a buffer that some thread writes is a step of its own, so     *)
(* every interleaving of the device is a behaviour of the model; reads of  *)
(* the read-only buffers are folded into the step that follows them.       *)
(*                                                                         *)
(* Layouts.  Each [batch, 3, rows, cols] grid is contiguous or channels-   *)
(* last; the kernels address all of them with the strides of the input's   *)
(* accessor, as the launchers pass no others.                              *)
(*                                                                         *)
(* Failures.  A launched kernel may fail on the device; the launchers look *)
(* at the device's last error once, after cudaDeviceSynchronize, print and *)
(* assert(false), which a build with NDEBUG compiles out.                  *)
(*                                                                         *)
(* Device functions.  getCoordinates_1, the atomic minimum on a depth word *)
(* and the index map's float-typed store and load are also run on their    *)
(* own, on wider ranges of arguments than the small grids give them.       *)
(***************************************************************************)
EXTENDS Integers, Sequences, FiniteSets

(***************************************************************************)
(* Bounds of the model.                                                    *)
(***************************************************************************)
\* Largest number of grid cells (batchSize * nrows * ncols) of a call.
MaxPoints == 3
\* Fractional bits of the fixed-point stand-in for float.
FracBits == 4

\* Largest depth given to the atomic minimum, in units of 1/Scale.
MaxDepth == 40
\* Largest batch index of the grid whose offsets go through the index map.
MaxBatch == 7
\* Largest extent (batch, rows, cols) of a grid whose work items are decomposed.
MaxDim == 4

Scale == 2 ^ FracBits

\* The float +infinity (HUGE_VALF of <math.h>), as a model value above every
\* finite value of the model.
HUGE_VALF == 1000000000

(***************************************************************************)
(* Float arithmetic on the dyadic values of the model.                     *)
(***************************************************************************)
\* The float NaN, as a model value of its own.
NaN == HUGE_VALF + 1
IsFinite(v) == -HUGE_VALF < v /\ v < HUGE_VALF

\* a * b; with an infinite factor the product is infinite, or NaN against 0
FMul(a, b) ==
    IF a = NaN \/ b = NaN THEN NaN
    ELSE IF IsFinite(a) /\ IsFinite(b) THEN (a * b) \div Scale
    ELSE IF a = 0 \/ b = 0 THEN NaN
    ELSE IF (a > 0) = (b > 0) THEN HUGE_VALF ELSE -HUGE_VALF
\* a / b for finite a and b; a division by zero gives an infinity, or NaN for 0/0
FDiv(a, b) ==
    IF b # 0 THEN (a * Scale) \div b
    ELSE IF a = 0 THEN NaN
    ELSE IF a > 0 THEN HUGE_VALF ELSE -HUGE_VALF
\* a + b
FAdd(a, b) ==
    IF a = NaN \/ b = NaN THEN NaN
    ELSE IF IsFinite(a) /\ IsFinite(b) THEN a + b
    ELSE IF IsFinite(b) THEN a
    ELSE IF IsFinite(a) \/ a = b THEN b
    ELSE NaN
\* pow(z, 2)
Pow2(z) == FMul(z, z)
RECURSIVE ILog2(_)
ILog2(n) == IF n <= 1 THEN 0 ELSE 1 + ILog2(n \div 2)

\* The nearest integer a float can hold: 24 significant bits, halves to even.
LongToNearestFloat(n) ==
    IF n < 2 ^ 24 THEN n
    ELSE LET u == 2 ^ (ILog2(n) - 23)
             q == n \div u
             r == n % u
         IN  IF 2 * r > u \/ (2 * r = u /\ q % 2 = 1) THEN (q + 1) * u ELSE q * u
\* int or long -> float: round to nearest (exact below 2^24)
IntToFloat(n) ==
    IF n < 0 THEN -(LongToNearestFloat(-n) * Scale) ELSE LongToNearestFloat(n) * Scale
\* float -> long: truncation toward zero
FloatToLong(v) == IF v >= 0 THEN v \div Scale ELSE -((-v) \div Scale)

\* a rounding that sends halves toward +infinity: floor(v + 0.5)
RoundHalfUp(v) == ((2 * v + Scale) \div (2 * Scale)) * Scale
\* round(): to the nearest integer, halves away from zero
Round(v) ==
    IF v >= 0 THEN ((2 * v + Scale) \div (2 * Scale)) * Scale
              ELSE -(((2 * (-v) + Scale) \div (2 * Scale)) * Scale)

\* (int) z: the value converted, not the bit pattern
FloatCastInt(v) == v \div Scale
\* __float_as_int on a non-negative float: the IEEE-754 single bit pattern
\* (sign 0, biased exponent, 23 mantissa bits).
FloatAsInt(v) ==
    IF v = 0 THEN 0
    ELSE IF v = HUGE_VALF THEN 255 * (2 ^ 23)
    ELSE (ILog2(v) - FracBits + 126) * (2 ^ 23) + v * (2 ^ (23 - ILog2(v)))

\* The float a non-negative bit pattern stands for.
IntAsFloat(w) ==
    IF w = 0 THEN 0
    ELSE IF w = 255 * (2 ^ 23) THEN HUGE_VALF
    \* a magnitude below the model's resolution
    ELSE IF w \div (2 ^ 23) < 127 - FracBits THEN 0
    ELSE LET e == (w \div (2 ^ 23)) - 127 + FracBits
             m == (2 ^ 23) + (w % (2 ^ 23))
         IN  IF e >= 23 THEN m * (2 ^ (e - 23)) ELSE m \div (2 ^ (23 - e))

UMin(a, b) == IF b < a THEN b ELSE a
\* a plain store instead of the minimum: the last writer wins
AtomicStore(old, val) == val
\* atomicMin((unsigned int*) addr, __float_as_int(z)): the new content of
\* the word, as a float
AtomicMin(old, val) == IntAsFloat(UMin(FloatAsInt(old), FloatAsInt(val)))

(***************************************************************************)
(* State.                                                                  *)
(***************************************************************************)
VARIABLES
    batchSize, nrows, ncols,    \* input_accessor.size(0), size(2), size(3)
    fy, fx, cy, cx,             \* the camera intrinsics of the call
    layout,                     \* the memory layout of each grid of the call
    ndebug,                     \* whether the build defines NDEBUG
    input_data,                 \* the input grid's memory
    output_data,                \* the output grid's memory
    indexMap_data,              \* the index map's memory
    gradOutput_data,            \* the incoming gradient's memory
    gradInput_data,             \* the input-gradient's memory
    indexMap0,                  \* the index map as the caller handed it over
    output0,                    \* the output grid as the caller handed it over
    host,                       \* the host's position in forward / backward
    stream,                     \* the kernels launched so far, in order
    pcP, pcR, pcG,              \* each thread's position in each kernel
    zo,                         \* refineOutput's local zo, per thread
    gvali,                      \* projectionGradient's local vali, per thread
    acc,                        \* log of the accesses to written buffers
    err,                        \* the device's last error: cudaSuccess or the failed kernel
    failed,                     \* the kernels that failed so far, in order
    diag,                       \* what the launchers printed so far
    unit                        \* a device function called on its own: name, arguments, result

vars == <<batchSize, nrows, ncols, fy, fx, cy, cx, layout, ndebug, input_data,
          output_data, indexMap_data, gradOutput_data, gradInput_data, indexMap0,
          output0, host, stream, pcP, pcR, pcG, zo, gvali, acc, err, failed,
          diag, unit>>

npoints == batchSize * nrows * ncols
Threads == 0 .. (npoints - 1)

\* The strides of a [batch, 3, rows, cols] tensor, per axis: "NCHW" is the
\* contiguous tensor, "NHWC" the channels-last one (a permuted view of a
\* contiguous [batch, rows, cols, 3] tensor).
Stride(l, axis) ==
    IF l = "NHWC"
       THEN <<3 * nrows * ncols, 1, 3 * ncols, 3>>[axis + 1]
       ELSE <<3 * nrows * ncols, nrows * ncols, ncols, 1>>[axis + 1]

\* The strides the launchers read: those of the input's accessor, and those
\* of the index map's accessor, a contiguous [batch, 1, rows, cols] tensor.
is0 == Stride(layout.input, 0)
is1 == Stride(layout.input, 1)
is2 == Stride(layout.input, 2)
is3 == Stride(layout.input, 3)
iMs0 == nrows * ncols
iMs2 == ncols
iMs3 == 1

GridOffsets == 0 .. (3 * npoints - 1)
MapOffsets == 0 .. (npoints - 1)

(***************************************************************************)
(* What a thread computes from its index and the read-only input.          *)
(***************************************************************************)
\* the decomposition with the two extents taken for one another
getCoordinatesSwapped(tid, nr, nc) ==
    [col |-> tid % nr, row |-> (tid \div nr) % nc, batch |-> (tid \div nr) \div nc]
getCoordinates_1(tid, nr, nc) ==
    [col |-> tid % nc, row |-> (tid \div nc) % nr, batch |-> (tid \div nc) \div nr]

\* an offset that forgets the column stride
InputOffsetNoCol(b, r, c) == b * is0 + r * is2
\* long vali = b*is0 + r*is2 + c*is3
InputOffset(b, r, c) == b * is0 + r * is2 + c * is3

Vali(t) ==
    LET p == getCoordinates_1(t, nrows, ncols)
    IN  InputOffset(p.batch, p.row, p.col)

InX(t) == input_data[0 * is1 + Vali(t)]
InY(t) == input_data[1 * is1 + Vali(t)]
InZ(t) == input_data[2 * is1 + Vali(t)]

\* if (z <= 0) return;
ValidDepth(z) == ~(z <= 0)

\* xpix = ((x/z) * fx) + cx,  ypix = ((y/z) * fy) + cy
ProjectX(x, z) == FMul(FDiv(x, z), fx) + cx
ProjectY(y, z) == FMul(FDiv(y, z), fy) + cy

\* the rounded pixel column committed in place of the unrounded one
XpixRounded(t) == Round(ProjectX(InX(t), InZ(t)))
Xpix(t) == ProjectX(InX(t), InZ(t))
Ypix(t) == ProjectY(InY(t), InZ(t))
Xpixr(t) == Round(Xpix(t))
Ypixr(t) == Round(Ypix(t))

\* a bounds test that forgets the left edge
InBoundsNoLeft(xr, yr) ==
    /\ xr < IntToFloat(ncols)
    /\ yr >= 0 /\ yr < IntToFloat(nrows)
\* xpixr >= 0 && xpixr < ncols && ypixr >= 0 && ypixr < nrows
InBounds(xr, yr) ==
    /\ xr >= 0 /\ xr < IntToFloat(ncols)
    /\ yr >= 0 /\ yr < IntToFloat(nrows)

\* long valo = b*is0 + ypixr*is2 + xpixr*is3 (float arithmetic, then long)
OutputOffset(b, yr, xr) ==
    FloatToLong(IntToFloat(b * is0) + FMul(yr, IntToFloat(is2))
                + FMul(xr, IntToFloat(is3)))
\* long valim = b*iMs0 + ypixr*iMs2 + xpixr*iMs3
IndexMapOffset(b, yr, xr) ==
    FloatToLong(IntToFloat(b * iMs0) + FMul(yr, IntToFloat(iMs2))
                + FMul(xr, IntToFloat(iMs3)))

\* The thread's point passes the depth filter and projects into the image.
Projects(t) == ValidDepth(InZ(t)) /\ InBounds(Xpixr(t), Ypixr(t))
Valo(t) == OutputOffset(getCoordinates_1(t, nrows, ncols).batch, Ypixr(t), Xpixr(t))

\* long valim = b*iMs0 + r*iMs2 + c*iMs3 (projectionGradient: its own cell)
MapOffset(b, r, c) == b * iMs0 + r * iMs2 + c * iMs3
OwnMapOffset(t) ==
    LET p == getCoordinates_1(t, nrows, ncols)
    IN  MapOffset(p.batch, p.row, p.col)

\* the index map written at the thread's own cell
ValimOwn(t) == OwnMapOffset(t)
Valim(t) == IndexMapOffset(getCoordinates_1(t, nrows, ncols).batch, Ypixr(t), Xpixr(t))

Access(k, op, buf, off, t) == [k |-> k, op |-> op, buf |-> buf, off |-> off, t |-> t]

\* a winner test that lets every point at or behind the minimum through
IsWinnerOrBehind(zout, z) == zout <= z
\* if (zo == z)
IsWinner(zout, z) == zout = z

\* the id recorded without the column stride
MapEntryNoCol(t) ==
    LET p == getCoordinates_1(t, nrows, ncols)
    IN  IntToFloat(InputOffsetNoCol(p.batch, p.row, p.col))
\* the target's own offset recorded instead of the input point's
MapEntryTarget(t) == IntToFloat(Valim(t))
\* *(indexMap_data + valim) = vali: the long is stored as a float
MapEntry(t) == IntToFloat(Vali(t))

\* a reset that does not look at the depth it overwrites
AnyDepth(v) == TRUE
\* if (*(output_data + 2*is1 + vali) == HUGE_VALF)
IsSentinel(v) == v = HUGE_VALF

\* the sentinel left in place
ResetKeepsSentinel == HUGE_VALF
\* *(output_data + 2*is1 + vali) = 0;
ResetValue == 0 * Scale

\* if (vali == -1) return;
NoWinner(vali) == vali = -1

\* the gradient read from the winner's own cell
GradSourceWinner(vali, valgo) == vali
\* gx, gy, gz are read at valgo, the output cell's own offset
GradSource(vali, valgo) == valgo

\* the gradient written at the output cell's own offset
GradTargetOwn(vali, valgo) == valgo
\* the three gradients are written at vali, the winner's offset
GradTarget(vali, valgo) == vali

\* (fx/z) * gx
GradX(z, gx) == FMul(FDiv(fx, z), gx)
\* (fy/z) * gy
GradY(z, gy) == FMul(FDiv(fy, z), gy)
\* ((-x/pow(z,2)) * fx * gx) + ((-y/pow(z,2)) * fy * gy) + gz
GradZ(x, y, z, gx, gy, gz) ==
    FAdd(FAdd(FMul(FMul(FDiv(-x, Pow2(z)), fx), gx),
              FMul(FMul(FDiv(-y, Pow2(z)), fy), gy)), gz)

(***************************************************************************)
(* The device's stream: kernels of one stream run in launch order.         *)
(***************************************************************************)
PcOf(k) == IF k = "project" THEN pcP ELSE IF k = "refine" THEN pcR ELSE pcG
KernelDone(k) == \A t \in Threads : PcOf(k)[t] = "done"
Launched(k) == \E i \in DOMAIN stream : stream[i] = k
\* The kernel failed on the device.
Failed(k) == \E i \in DOMAIN failed : failed[i] = k
\* The kernel is off the device: every work item completed, or it failed.
Terminated(k) == KernelDone(k) \/ Failed(k)
\* a device that starts a kernel as soon as it is launched
StreamUnordered(k) == TRUE
\* a kernel starts when the kernels launched before it are off the device
StreamOrder(k) ==
    \A i, j \in DOMAIN stream : (stream[j] = k /\ i < j) => Terminated(stream[i])
\* A work item starts when its kernel may start and has not failed.
MayRun(k) == Launched(k) /\ StreamOrder(k) /\ ~Failed(k)

(***************************************************************************)
(* The calls' inputs.                                                      *)
(***************************************************************************)
Shapes ==
    {s \in (1 .. MaxPoints) \X (1 .. MaxPoints) \X (1 .. MaxPoints) :
        s[1] * s[2] * s[3] <= MaxPoints}

\* fy = 2, fx = 1, cy = 0, cx = 1/4
Intrinsics == {[fy |-> 2 * Scale, fx |-> Scale, cy |-> 0, cx |-> Scale \div 4]}

\* The input points (x, y, z):
\*   (0, 0, 1)     projects to (0.25, 0): column 0, row 0
\*   (0, 0, 2)     the same cell, farther away
\*   (-1/4, 0, 1)  projects to (0, 0): the same cell and depth as the first
\*   (1/4, 0, 1)   projects to (0.5, 0): column 1 (the half rounds away)
\*   (0, 1/2, 1)   projects to (0.25, 1): row 1
\*   (-3/4, 0, 1)  projects to (-0.5, 0): column -1, out of the image
\*   (0, 0, 0)     no valid depth
Points ==
    { <<0, 0, Scale>>, <<0, 0, 2 * Scale>>, <<-(Scale \div 4), 0, Scale>>,
      <<Scale \div 4, 0, Scale>>, <<0, Scale \div 2, Scale>>,
      <<-(3 * (Scale \div 4)), 0, Scale>>, <<0, 0, 0>> }

\* What the output's x and y channels may hold before the call.
Garbage == {5 * Scale}

\* the index map of a caller who only allocated it: stale offsets or "no winner"
IndexMapFills == {IntToFloat(-1), IntToFloat(0)}

\* The layouts of the four [batch, 3, rows, cols] grids of a call.
Contiguous ==
    [input |-> "NCHW", output |-> "NCHW", gradInput |-> "NCHW", gradOutput |-> "NCHW"]

\* The channel and the cell a memory offset holds in a grid of layout l.
ChannelOf(l, o) ==
    IF l = "NHWC" THEN o % 3 ELSE (o % (3 * nrows * ncols)) \div (nrows * ncols)
CellOf(l, o) ==
    IF l = "NHWC" THEN o \div 3
    ELSE (o \div (3 * nrows * ncols)) * (nrows * ncols) + (o % (nrows * ncols))

\* No device function was called on its own.
NoCall == [f |-> "none"]

\* The caller's buffers before Forward: every grid holds its logical content
\* at its own strided locations.
InitCall(fills, layouts, builds, points) ==
    \E s \in Shapes, k \in Intrinsics, g \in Garbage, f \in fills,
       l \in layouts, nd \in builds :
        /\ batchSize = s[1] /\ nrows = s[2] /\ ncols = s[3]
        /\ fy = k.fy /\ fx = k.fx /\ cy = k.cy /\ cx = k.cx
        /\ layout = l
        /\ ndebug = nd
        /\ \E pts \in [Threads -> points] :
              input_data =
                  [o \in GridOffsets |->
                      pts[CellOf(l.input, o)][ChannelOf(l.input, o) + 1]]
        \* the caller's precondition: the depth channel holds the sentinel
        /\ output_data =
              [o \in GridOffsets |-> IF ChannelOf(l.output, o) = 2 THEN HUGE_VALF ELSE g]
        /\ indexMap_data = [o \in MapOffsets |-> f]
        /\ indexMap0 = indexMap_data
        /\ output0 = output_data
        /\ gradOutput_data =
              [o \in GridOffsets |->
                  IntToFloat(ChannelOf(l.gradOutput, o) * (nrows * ncols)
                             + (CellOf(l.gradOutput, o) \div (nrows * ncols))
                                   * (3 * nrows * ncols)
                             + (CellOf(l.gradOutput, o) % (nrows * ncols)) + 1)]
        \* the caller's precondition: grad_input is zeroed
        /\ gradInput_data = [o \in GridOffsets |-> 0]
        /\ host = "launch_project"
        /\ stream = <<>>
        /\ pcP = [t \in Threads |-> "start"]
        /\ pcR = [t \in Threads |-> "start"]
        /\ pcG = [t \in Threads |-> "start"]
        /\ zo = [t \in Threads |-> 0]
        /\ gvali = [t \in Threads |-> 0]
        /\ acc = {}
        /\ err = "cudaSuccess"
        /\ failed = <<>>
        /\ diag = <<>>
        /\ unit = NoCall

\* Contiguous grids, a build whose assert is active.
InitWith(fills) == InitCall(fills, {Contiguous}, {FALSE}, Points)

\* The index map pre-filled with "no winner" (-1), as projectionGradient reads it.
Init == InitWith({IntToFloat(-1)})
\* The index map merely allocated.
InitAlloc == InitWith(IndexMapFills)

\* the device's error state and what the host made of it
errors == <<err, failed, diag>>

inputs == <<batchSize, nrows, ncols, fy, fx, cy, cx, layout, ndebug, input_data,
            gradOutput_data, indexMap0, output0>>

(***************************************************************************)
(* projectPointsAndDepthTest                                               *)
(***************************************************************************)
ProjectStep(t) ==
    /\ MayRun("project")
    /\ pcP[t] = "start"
    /\ pcP' = [pcP EXCEPT ![t] = "done"]
    /\ IF Projects(t)
          THEN /\ output_data' =
                     [output_data EXCEPT ![2 * is1 + Valo(t)] = AtomicMin(@, InZ(t))]
               /\ acc' = acc \cup {Access("project", "w", "output", 2 * is1 + Valo(t), t)}
          ELSE UNCHANGED <<output_data, acc>>
    /\ UNCHANGED <<inputs, errors, unit, indexMap_data, gradInput_data, host, stream,
                   pcR, pcG, zo, gvali>>

(***************************************************************************)
(* refineOutput                                                            *)
(***************************************************************************)
RefineReset(t) ==
    /\ MayRun("refine")
    /\ pcR[t] = "start"
    /\ IF IsSentinel(output_data[2 * is1 + Vali(t)])
          THEN /\ output_data' = [output_data EXCEPT ![2 * is1 + Vali(t)] = ResetValue]
               /\ acc' = acc \cup {Access("refine", "r", "output", 2 * is1 + Vali(t), t),
                                   Access("refine", "w", "output", 2 * is1 + Vali(t), t)}
          ELSE /\ UNCHANGED output_data
               /\ acc' = acc \cup {Access("refine", "r", "output", 2 * is1 + Vali(t), t)}
    /\ pcR' = [pcR EXCEPT ![t] = IF Projects(t) THEN "read" ELSE "done"]
    /\ UNCHANGED <<inputs, errors, unit, indexMap_data, gradInput_data, host, stream,
                   pcP, pcG, zo, gvali>>

RefineRead(t) ==
    /\ ~Failed("refine")
    /\ pcR[t] = "read"
    /\ zo' = [zo EXCEPT ![t] = output_data[2 * is1 + Valo(t)]]
    /\ acc' = acc \cup {Access("refine", "r", "output", 2 * is1 + Valo(t), t)}
    /\ pcR' = [pcR EXCEPT ![t] = IF IsWinner(zo'[t], InZ(t)) THEN "wx" ELSE "done"]
    /\ UNCHANGED <<inputs, errors, unit, output_data, indexMap_data, gradInput_data, host,
                   stream, pcP, pcG, gvali>>

RefineWriteX(t) ==
    /\ ~Failed("refine")
    /\ pcR[t] = "wx"
    /\ output_data' = [output_data EXCEPT ![0 * is1 + Valo(t)] = Xpix(t)]
    /\ acc' = acc \cup {Access("refine", "w", "output", 0 * is1 + Valo(t), t)}
    /\ pcR' = [pcR EXCEPT ![t] = "wy"]
    /\ UNCHANGED <<inputs, errors, unit, indexMap_data, gradInput_data, host, stream,
                   pcP, pcG, zo, gvali>>

RefineWriteY(t) ==
    /\ ~Failed("refine")
    /\ pcR[t] = "wy"
    /\ output_data' = [output_data EXCEPT ![1 * is1 + Valo(t)] = Ypix(t)]
    /\ acc' = acc \cup {Access("refine", "w", "output", 1 * is1 + Valo(t), t)}
    /\ pcR' = [pcR EXCEPT ![t] = "wim"]
    /\ UNCHANGED <<inputs, errors, unit, indexMap_data, gradInput_data, host, stream,
                   pcP, pcG, zo, gvali>>

RefineWriteIndex(t) ==
    /\ ~Failed("refine")
    /\ pcR[t] = "wim"
    /\ indexMap_data' = [indexMap_data EXCEPT ![Valim(t)] = MapEntry(t)]
    /\ acc' = acc \cup {Access("refine", "w", "indexMap", Valim(t), t)}
    /\ pcR' = [pcR EXCEPT ![t] = "done"]
    /\ UNCHANGED <<inputs, errors, unit, output_data, gradInput_data, host, stream,
                   pcP, pcG, zo, gvali>>

(***************************************************************************)
(* projectionGradient                                                      *)
(***************************************************************************)
\* long valgo = b*is0 + r*is2 + c*is3: the thread's own output cell
Valgo(t) == Vali(t)

GradRead(t) ==
    /\ MayRun("gradient")
    /\ pcG[t] = "start"
    /\ gvali' = [gvali EXCEPT ![t] = FloatToLong(indexMap_data[OwnMapOffset(t)])]
    /\ acc' = acc \cup {Access("gradient", "r", "indexMap", OwnMapOffset(t), t)}
    /\ pcG' = [pcG EXCEPT ![t] = IF NoWinner(gvali'[t]) THEN "done" ELSE "gx"]
    /\ UNCHANGED <<inputs, errors, unit, output_data, indexMap_data, gradInput_data, host,
                   stream, pcP, pcR, zo>>

GradWriteX(t) ==
    /\ ~Failed("gradient")
    /\ pcG[t] = "gx"
    /\ LET z  == input_data[2 * is1 + gvali[t]]
           gx == gradOutput_data[0 * is1 + GradSource(gvali[t], Valgo(t))]
           at == 0 * is1 + GradTarget(gvali[t], Valgo(t))
       IN  /\ gradInput_data' = [gradInput_data EXCEPT ![at] = GradX(z, gx)]
           /\ acc' = acc \cup {Access("gradient", "w", "gradInput", at, t)}
    /\ pcG' = [pcG EXCEPT ![t] = "gy"]
    /\ UNCHANGED <<inputs, errors, unit, output_data, indexMap_data, host, stream,
                   pcP, pcR, zo, gvali>>

GradWriteY(t) ==
    /\ ~Failed("gradient")
    /\ pcG[t] = "gy"
    /\ LET z  == input_data[2 * is1 + gvali[t]]
           gy == gradOutput_data[1 * is1 + GradSource(gvali[t], Valgo(t))]
           at == 1 * is1 + GradTarget(gvali[t], Valgo(t))
       IN  /\ gradInput_data' = [gradInput_data EXCEPT ![at] = GradY(z, gy)]
           /\ acc' = acc \cup {Access("gradient", "w", "gradInput", at, t)}
    /\ pcG' = [pcG EXCEPT ![t] = "gz"]
    /\ UNCHANGED <<inputs, errors, unit, output_data, indexMap_data, host, stream,
                   pcP, pcR, zo, gvali>>

GradWriteZ(t) ==
    /\ ~Failed("gradient")
    /\ pcG[t] = "gz"
    /\ LET x  == input_data[0 * is1 + gvali[t]]
           y  == input_data[1 * is1 + gvali[t]]
           z  == input_data[2 * is1 + gvali[t]]
           gx == gradOutput_data[0 * is1 + GradSource(gvali[t], Valgo(t))]
           gy == gradOutput_data[1 * is1 + GradSource(gvali[t], Valgo(t))]
           gz == gradOutput_data[2 * is1 + GradSource(gvali[t], Valgo(t))]
           at == 2 * is1 + GradTarget(gvali[t], Valgo(t))
       IN  /\ gradInput_data' =
                 [gradInput_data EXCEPT ![at] = GradZ(x, y, z, gx, gy, gz)]
           /\ acc' = acc \cup {Access("gradient", "w", "gradInput", at, t)}
    /\ pcG' = [pcG EXCEPT ![t] = "done"]
    /\ UNCHANGED <<inputs, errors, unit, output_data, indexMap_data, host, stream,
                   pcP, pcR, zo, gvali>>

(***************************************************************************)
(* OccMap_cuda_forward and OccMap_cuda_backward (host side)                *)
(***************************************************************************)
Launch(kernels, to) ==
    /\ host' = to
    /\ stream' = stream \o kernels
    /\ UNCHANGED <<inputs, errors, unit, output_data, indexMap_data, gradInput_data,
                   pcP, pcR, pcG, zo, gvali, acc>>

\* A kernel that was launched and has not completed fails on the device
\* (an invalid launch, an illegal address, ...): the device's last error is set.
DeviceFault(k) ==
    /\ MayRun(k)
    /\ ~KernelDone(k)
    /\ err' = k
    /\ failed' = Append(failed, k)
    /\ UNCHANGED <<inputs, diag, unit, output_data, indexMap_data, gradInput_data,
                   host, stream, pcP, pcR, pcG, zo, gvali, acc>>

\* cudaDeviceSynchronize() returns when every kernel launched is off the device.
Synchronized == \A i \in DOMAIN stream : Terminated(stream[i])

\* assert(false): aborts the process, unless the build defines NDEBUG
AssertFalse(to) == IF ndebug THEN to ELSE "aborted"

\* cudaDeviceSynchronize(); err = cudaGetLastError();
\* if (err != cudaSuccess) { printf("error in <launcher>: ..."); assert(false); }
\* return 1;
CheckErrors(launcher, to) ==
    /\ Synchronized
    /\ err' = "cudaSuccess"
    /\ IF err # "cudaSuccess"
          THEN /\ diag' = Append(diag, launcher)
               /\ host' = AssertFalse(to)
          ELSE /\ diag' = diag
               /\ host' = to
    /\ UNCHANGED <<inputs, failed, unit, output_data, indexMap_data, gradInput_data,
                   stream, pcP, pcR, pcG, zo, gvali, acc>>

\* projectPointsAndDepthTest<<<blocks, threads>>>(...)
LaunchProject ==
    /\ host = "launch_project"
    /\ Launch(<<"project">>, "launch_refine")
\* refineOutput<<<blocks, threads>>>(...)
LaunchRefine ==
    /\ host = "launch_refine"
    /\ Launch(<<"refine">>, "forward_sync")
\* the end of OccMap_cuda_forward
ForwardSync ==
    /\ host = "forward_sync"
    /\ CheckErrors("OccMap_ForwardLauncher", "forward_done")
\* projectionGradient<<<blocks, threads>>>(...)
LaunchGradient ==
    /\ host = "forward_done"
    /\ Launch(<<"gradient">>, "backward_sync")
\* the end of OccMap_cuda_backward
BackwardSync ==
    /\ host = "backward_sync"
    /\ CheckErrors("OccMap_BackwardLauncher", "backward_done")

NextForward ==
    \/ LaunchProject
    \/ LaunchRefine
    \/ ForwardSync
    \/ \E t \in Threads : ProjectStep(t)
    \/ \E t \in Threads : RefineReset(t)
    \/ \E t \in Threads : RefineRead(t)
    \/ \E t \in Threads : RefineWriteX(t)
    \/ \E t \in Threads : RefineWriteY(t)
    \/ \E t \in Threads : RefineWriteIndex(t)

NextBackward ==
    \/ LaunchGradient
    \/ BackwardSync
    \/ \E t \in Threads : GradRead(t)
    \/ \E t \in Threads : GradWriteX(t)
    \/ \E t \in Threads : GradWriteY(t)
    \/ \E t \in Threads : GradWriteZ(t)

Next == NextForward \/ NextBackward

\* Forward, then Backward, on buffers prepared as both kernels expect.
Spec == Init /\ [][Next]_vars
\* Forward alone, on an index map the caller only allocated.
SpecAlloc == InitAlloc /\ [][NextForward]_vars

(***************************************************************************)
(* The grids read logically, cell by cell, for the properties below.       *)
(* A cell is named by its flat index (batch*nrows + row)*ncols + col.      *)
(***************************************************************************)
Cell(c) ==
    [batch |-> c \div (nrows * ncols), row |-> (c \div ncols) % nrows, col |-> c % ncols]
\* where a grid of layout l keeps channel ch of cell c
LayoutAt(l, c, ch) ==
    Cell(c).batch * Stride(l, 0) + ch * Stride(l, 1)
        + Cell(c).row * Stride(l, 2) + Cell(c).col * Stride(l, 3)
InputAt(c, ch) == LayoutAt(layout.input, c, ch)
OutputAt(c, ch) == LayoutAt(layout.output, c, ch)

PointX(t) == input_data[InputAt(t, 0)]
PointY(t) == input_data[InputAt(t, 1)]
PointZ(t) == input_data[InputAt(t, 2)]
OutX(c) == output_data[OutputAt(c, 0)]
OutY(c) == output_data[OutputAt(c, 1)]
OutZ(c) == output_data[OutputAt(c, 2)]
\* the index-map entry of cell c, as the long projectionGradient reads
Winner(c) == FloatToLong(indexMap_data[c])
HasWinner(c) == Winner(c) # -1
\* the flat input offset of point t
OffsetOf(t) == InputAt(t, 0)

\* Point t has z > 0 and its rounded projection is cell c of its own batch.
Lands(t, c) ==
    /\ PointZ(t) > 0
    /\ Cell(t).batch = Cell(c).batch
    /\ Round(ProjectY(PointY(t), PointZ(t))) = IntToFloat(Cell(c).row)
    /\ Round(ProjectX(PointX(t), PointZ(t))) = IntToFloat(Cell(c).col)
Candidates(c) == {t \in Threads : Lands(t, c)}
Claimed(c) == Candidates(c) # {}
MinDepth(c) ==
    CHOOSE z \in {PointZ(t) : t \in Candidates(c)} :
        \A t \in Candidates(c) : z <= PointZ(t)
\* the candidates of c at its minimal depth
Nearest(c) == {t \in Candidates(c) : PointZ(t) = MinDepth(c)}
\* no two points tie at the minimal depth of a cell
NoTies == \A c \in Threads : Cardinality(Nearest(c)) <= 1

Pass1Complete == KernelDone("project")
Pass2Untouched == \A t \in Threads : pcR[t] = "start"
Pass2Complete == KernelDone("refine")
ForwardReturned == host \in {"forward_done", "backward_sync", "backward_done"}
BackwardReturned == host = "backward_done"

(***************************************************************************)
(* C1.  Depth test under concurrency: when every work item of pass 1 has   *)
(* completed (and pass 2 has touched nothing yet), whatever the order of   *)
(* the atomic updates was, each output cell's depth is the smallest z of   *)
(* the points with z > 0 of its batch whose rounded projection is the      *)
(* cell, and is still the sentinel when there is no such point.            *)
(***************************************************************************)
TheoremC1 ==
    (Pass1Complete /\ Pass2Untouched) =>
        \A c \in Threads :
            OutZ(c) = IF Claimed(c) THEN MinDepth(c) ELSE HUGE_VALF

\* Pass 1 is over; one cell took two points of different depth, another none.
WitnessC1 ==
    /\ Pass1Complete /\ Pass2Untouched
    /\ \E c \in Threads : \E t1, t2 \in Candidates(c) : PointZ(t1) < PointZ(t2)
    /\ \E c \in Threads : ~Claimed(c) /\ OutZ(c) = HUGE_VALF

(***************************************************************************)
(* C2.  Index-map exactness: once Forward has returned, the point recorded *)
(* as the winner of an output cell has that cell as its rounded projection *)
(* (same batch, row, column) and its z is the depth committed in the cell; *)
(* ties on z included.                                                     *)
(***************************************************************************)
TheoremC2 ==
    ForwardReturned =>
        \A c \in Threads :
            HasWinner(c) =>
                \E t \in Threads :
                    /\ OffsetOf(t) = Winner(c)
                    /\ Lands(t, c)
                    /\ PointZ(t) = OutZ(c)

\* Forward has returned; two points tied at the minimal depth of a cell that
\* holds a winner, and a farther point lost there.
WitnessC2 ==
    /\ ForwardReturned
    /\ \E c \in Threads :
          /\ HasWinner(c)
          /\ Cardinality(Nearest(c)) >= 2
          /\ Candidates(c) # Nearest(c)

(***************************************************************************)
(* C3.  Unclaimed cells.  As stated: after Forward on an index map that    *)
(* was only allocated, a cell no point with z > 0 projects onto has depth  *)
(* 0 and "no winner" in the index map.                                     *)
(***************************************************************************)
OriginalC3 ==
    ForwardReturned =>
        \A c \in Threads :
            ~Claimed(c) => (OutZ(c) = 0 /\ Winner(c) = -1)

(***************************************************************************)
(* C3, amended.  After Forward, a cell no point with z > 0 projects onto   *)
(* has depth 0 and its index-map entry is the one the caller left there:   *)
(* Forward never stores "no winner", the entry is -1 only if the caller    *)
(* pre-filled the index map with -1.                                       *)
(***************************************************************************)
TheoremC3 ==
    ForwardReturned =>
        \A c \in Threads :
            ~Claimed(c) => (OutZ(c) = 0 /\ indexMap_data[c] = indexMap0[c])

\* Forward has returned on a stale index map; an unclaimed cell was reset to
\* depth 0 while its own point won another cell.
WitnessC3 ==
    /\ ForwardReturned
    /\ \E c \in Threads :
          /\ ~Claimed(c) /\ OutZ(c) = 0 /\ Winner(c) # -1
          /\ \E d \in Threads : d # c /\ Winner(d) = OffsetOf(c) /\ Lands(c, d)

(***************************************************************************)
(* The result of the calls as a function of their inputs, given which of   *)
(* the nearest candidates of a cell is taken as its winner.                *)
(***************************************************************************)
GradOutAt(c, ch) == gradOutput_data[LayoutAt(layout.gradOutput, c, ch)]
GradInAt(t, ch) == gradInput_data[LayoutAt(layout.gradInput, t, ch)]
\* the closed-form Jacobian-vector product at point t for the gradient of cell c
JvpX(t, c) == FMul(FDiv(fx, PointZ(t)), GradOutAt(c, 0))
JvpY(t, c) == FMul(FDiv(fy, PointZ(t)), GradOutAt(c, 1))
JvpZ(t, c) ==
    FMul(FMul(FDiv(-PointX(t), FMul(PointZ(t), PointZ(t))), fx), GradOutAt(c, 0))
    + FMul(FMul(FDiv(-PointY(t), FMul(PointZ(t), PointZ(t))), fy), GradOutAt(c, 1))
    + GradOutAt(c, 2)
Jvp(t, c, ch) == IF ch = 0 THEN JvpX(t, c) ELSE IF ch = 1 THEN JvpY(t, c) ELSE JvpZ(t, c)

\* the nearest candidate of c with the highest index: the one that writes
\* last when the work items run one after the other in index order
LastNearest(c) == CHOOSE t \in Nearest(c) : \A u \in Nearest(c) : u <= t

ResultInIndexOrder ==
    /\ \A c \in Threads :
          IF Claimed(c)
             THEN /\ OutZ(c) = MinDepth(c)
                  /\ OutX(c) = ProjectX(PointX(LastNearest(c)), PointZ(LastNearest(c)))
                  /\ OutY(c) = ProjectY(PointY(LastNearest(c)), PointZ(LastNearest(c)))
                  /\ Winner(c) = OffsetOf(LastNearest(c))
             ELSE /\ OutZ(c) = 0
                  /\ OutX(c) = output0[OutputAt(c, 0)]
                  /\ OutY(c) = output0[OutputAt(c, 1)]
                  /\ indexMap_data[c] = indexMap0[c]
    /\ \A t \in Threads : \A ch \in 0 .. 2 :
          GradInAt(t, ch) =
              IF \E c \in Threads : Claimed(c) /\ LastNearest(c) = t
                 THEN Jvp(t, CHOOSE c \in Threads : Claimed(c) /\ LastNearest(c) = t, ch)
                 ELSE 0

(***************************************************************************)
(* C4.  Determinism under reordering, as stated: whatever the order of the *)
(* work items within each pass, Forward and Backward end with the same     *)
(* output grid, index map and input gradient, hence with those of the run  *)
(* that takes the work items in index order.                               *)
(***************************************************************************)
OriginalC4 == BackwardReturned => ResultInIndexOrder

(***************************************************************************)
(* C4, amended.  When no two points tie at the minimal depth of one output *)
(* cell, every order of the work items within each pass ends with the same *)
(* output grid, index map and input gradient.                              *)
(***************************************************************************)
TheoremC4 == (BackwardReturned /\ NoTies) => ResultInIndexOrder

\* Both calls have returned without a tie; one cell had two candidates of
\* different depth and another cell won a point of a different cell.
WitnessC4 ==
    /\ BackwardReturned /\ NoTies
    /\ \E c \in Threads : Cardinality(Candidates(c)) >= 2
    /\ \E c \in Threads : HasWinner(c) /\ Winner(c) # OffsetOf(c)

\* A tie whose outcome is the one of the index order (the other outcome is
\* the violation of OriginalC4).
TieInIndexOrder == BackwardReturned /\ ~NoTies /\ ResultInIndexOrder

(***************************************************************************)
(* C5.  Gradient routing frame: Backward writes the gradient of an input   *)
(* cell if and only if the cell's offset is recorded as a winner in the    *)
(* index map; every other cell of grad_input is left as it was, 0 in a     *)
(* zeroed grad_input.                                                      *)
(***************************************************************************)
GradWritten(t, ch) ==
    \E a \in acc : /\ a.k = "gradient" /\ a.op = "w" /\ a.buf = "gradInput"
                   /\ a.off = LayoutAt(layout.gradInput, t, ch)
Recorded(t) == \E c \in Threads : Winner(c) = OffsetOf(t)

TheoremC5 ==
    BackwardReturned =>
        \A t \in Threads : \A ch \in 0 .. 2 :
            /\ GradWritten(t, ch) <=> Recorded(t)
            /\ ~Recorded(t) => GradInAt(t, ch) = 0

\* Backward has returned; it wrote the gradient of a point recorded by
\* another cell than its own, and left a valid but hidden point alone.
WitnessC5 ==
    /\ BackwardReturned
    /\ \E t \in Threads : Recorded(t) /\ Winner(t) # OffsetOf(t) /\ GradInAt(t, 0) # 0
    /\ \E t \in Threads : ~Recorded(t) /\ PointZ(t) > 0

(***************************************************************************)
(* C6.  Gradient exactness: for every output cell with a recorded winner   *)
(* (x, y, z) and incoming gradient (gx, gy, gz), read from the output cell *)
(* itself, Backward leaves at the winner's input location                  *)
(* (fx/z)*gx, (fy/z)*gy and (-x/z^2)*fx*gx + (-y/z^2)*fy*gy + gz.          *)
(***************************************************************************)
TheoremC6 ==
    BackwardReturned =>
        \A c \in Threads :
            HasWinner(c) =>
                \E t \in Threads :
                    /\ OffsetOf(t) = Winner(c)
                    /\ \A ch \in 0 .. 2 : GradInAt(t, ch) = Jvp(t, c, ch)

\* Backward has returned; a winner with x # 0 and z # 1 was recorded by a cell
\* other than its own.
WitnessC6 ==
    /\ BackwardReturned
    /\ \E c, t \in Threads :
          /\ HasWinner(c) /\ OffsetOf(t) = Winner(c) /\ t # c
          /\ PointX(t) # 0 /\ GradInAt(t, 2) = JvpZ(t, c)

(***************************************************************************)
(* C7.  After Forward on an index map that held only "no winner", no two   *)
(* output cells hold the same winner offset, and no two work items of the  *)
(* backward pass write the same cell of grad_input.                        *)
(***************************************************************************)
TheoremC7 ==
    /\ ForwardReturned =>
          \A c, d \in Threads : (c # d /\ HasWinner(c)) => Winner(c) # Winner(d)
    /\ \A a, b \in acc :
          (/\ a.k = "gradient" /\ b.k = "gradient" /\ a.op = "w" /\ b.op = "w"
           /\ a.buf = "gradInput" /\ b.buf = "gradInput" /\ a.off = b.off)
              => a.t = b.t

\* Backward has returned; two cells hold winners and both were routed.
WitnessC7 ==
    /\ BackwardReturned
    /\ \E c, d \in Threads :
          /\ c # d /\ HasWinner(c) /\ HasWinner(d)
          /\ \E a, b \in acc : /\ a.k = "gradient" /\ b.k = "gradient"
                               /\ a.op = "w" /\ b.op = "w" /\ a.t = c /\ b.t = d

(***************************************************************************)
(* C8.  As stated: after pass 2, an output cell has a recorded index-map   *)
(* winner if and only if its depth channel is not the sentinel.            *)
(***************************************************************************)
OriginalC8 ==
    Pass2Complete =>
        \A c \in Threads : HasWinner(c) <=> OutZ(c) # HUGE_VALF

(***************************************************************************)
(* C8, amended.  After pass 2 no depth channel holds the sentinel any more *)
(* (pass 2 has reset it to 0), and an output cell has a recorded winner if *)
(* and only if its depth channel is not 0, the index map having been       *)
(* pre-filled with "no winner".                                            *)
(***************************************************************************)
TheoremC8 ==
    Pass2Complete =>
        \A c \in Threads :
            /\ OutZ(c) # HUGE_VALF
            /\ HasWinner(c) <=> OutZ(c) # 0

\* Pass 2 is over with a cell that holds a winner and a cell that was reset.
WitnessC8 ==
    /\ Pass2Complete
    /\ \E c \in Threads : HasWinner(c) /\ OutZ(c) > 0
    /\ \E c \in Threads : ~HasWinner(c) /\ OutZ(c) = 0 /\ output0[OutputAt(c, 2)] = HUGE_VALF

(***************************************************************************)
(* C9.  Pass ordering: no work item of pass 2 has started unless every     *)
(* work item of pass 1 has completed, and every depth a work item of pass  *)
(* 2 has read at its target cell is the minimum pass 1 ended with.         *)
(***************************************************************************)
TheoremC9 ==
    /\ (\E t \in Threads : pcR[t] # "start") => Pass1Complete
    /\ \A t, c \in Threads :
          (Lands(t, c) /\ pcR[t] \in {"wx", "wy", "wim", "done"})
              => zo[t] = MinDepth(c)

\* Pass 2 was launched while pass 1 was running and has later read a depth:
\* a work item of pass 2 found itself the winner of a cell two points target.
WitnessC9 ==
    /\ stream = <<"project", "refine">>
    /\ \E t, c \in Threads :
          /\ Lands(t, c) /\ pcR[t] = "wx" /\ zo[t] = PointZ(t)
          /\ Cardinality(Candidates(c)) >= 2

(***************************************************************************)
(* C10.  Single writer, as stated: the depth channel in pass 1 is the only *)
(* location written by more than one work item of a pass, and no location  *)
(* written in pass 2 or in the backward pass is read by another work item  *)
(* of that pass.                                                           *)
(***************************************************************************)
SameLocation(a, b) == a.k = b.k /\ a.buf = b.buf /\ a.off = b.off
DepthChannel(a) == a.buf = "output" /\ ChannelOf(layout.output, a.off) = 2
SingleWriter ==
    \A a, b \in acc :
        (a.op = "w" /\ b.op = "w" /\ SameLocation(a, b) /\ a.t # b.t)
            => (a.k = "project" /\ DepthChannel(a))
NoReadWriteRace ==
    \A a, b \in acc :
        (a.op = "w" /\ b.op = "r" /\ SameLocation(a, b)) => a.t = b.t

OriginalC10 == SingleWriter /\ NoReadWriteRace

(***************************************************************************)
(* C10, amended.  When no two points tie at the minimal depth of one       *)
(* output cell, the depth channel in pass 1 is the only location written   *)
(* by more than one work item of a pass, and pass 2 and the backward pass  *)
(* have no write-write and no read-write race.                             *)
(***************************************************************************)
TheoremC10 == NoTies => (SingleWriter /\ NoReadWriteRace)

\* Both calls have returned without a tie: two work items of pass 1 updated
\* one depth, pass 2 reset a cell and committed a winner, Backward routed it.
WitnessC10 ==
    /\ BackwardReturned /\ NoTies
    /\ \E a, b \in acc : /\ a.k = "project" /\ a.op = "w" /\ b.op = "w"
                         /\ SameLocation(a, b) /\ a.t # b.t
    /\ \E a \in acc : a.k = "refine" /\ a.op = "w" /\ DepthChannel(a)
    /\ \E a \in acc : a.k = "refine" /\ a.op = "w" /\ a.buf = "indexMap"
    /\ \E a \in acc : a.k = "gradient" /\ a.op = "w"

(***************************************************************************)
(* Calls on grids of different layouts.                                    *)
(***************************************************************************)
\* every combination of a contiguous or channels-last layout per grid
Layouts ==
    [input : {"NCHW", "NHWC"}, output : {"NCHW", "NHWC"},
     gradInput : {"NCHW", "NHWC"}, gradOutput : {"NCHW", "NHWC"}]

\* (0, 0, 1), (0, 0, 2), (1/4, 0, 1) and (0, 0, 0): two depths on column 0,
\* a point on column 1, a point without valid depth
LayoutPoints ==
    { <<0, 0, Scale>>, <<0, 0, 2 * Scale>>, <<Scale \div 4, 0, Scale>>, <<0, 0, 0>> }

InitLayout == InitCall({IntToFloat(-1)}, Layouts, {FALSE}, LayoutPoints)
\* Forward, then Backward, on grids of any of the layouts.
SpecLayout == InitLayout /\ [][Next]_vars

\* The output and the two gradient grids are laid out as the input grid is.
SharedLayout ==
    /\ layout.output = layout.input
    /\ layout.gradInput = layout.input
    /\ layout.gradOutput = layout.input

\* The logged access is to the strided location, in its own grid, of the
\* logical cell the work item means.
AtOwnLocation(a) ==
    IF a.k = "project"
       THEN \E c \in Threads : Lands(a.t, c) /\ a.off = OutputAt(c, 2)
    ELSE IF a.k = "refine" /\ a.buf = "output"
       THEN \/ a.off = OutputAt(a.t, 2)
            \/ \E c \in Threads, ch \in 0 .. 2 : Lands(a.t, c) /\ a.off = OutputAt(c, ch)
    ELSE IF a.k = "refine"
       THEN \E c \in Threads : Lands(a.t, c) /\ a.off = c
    ELSE IF a.buf = "indexMap"
       THEN a.off = a.t
    ELSE \E u \in Threads, ch \in 0 .. 2 :
            a.off = LayoutAt(layout.gradInput, u, ch)
LayoutIndependent ==
    /\ \A a \in acc : AtOwnLocation(a)
    /\ (BackwardReturned /\ NoTies) => ResultInIndexOrder

(***************************************************************************)
(* C11.  Layout independence, as stated: whatever the strides of the       *)
(* input, output, index-map, grad_input and grad_output grids are, also    *)
(* when the output or a gradient grid is laid out differently from the     *)
(* input grid, Forward and Backward access every logical cell at its own   *)
(* grid's strided location, and the logical results are those of the       *)
(* inputs' logical content.                                                *)
(***************************************************************************)
OriginalC11 == LayoutIndependent

\* What does hold: the kernels address the output and both gradient grids
\* with the input grid's strides, so the results are layout independent
\* when these grids share the input's layout.
SharedLayoutIndependent == SharedLayout => LayoutIndependent

\* Both calls have returned on a contiguous output grid and a channels-last
\* input grid, without a tie: a claimed cell does not hold its nearest depth.
WitnessC11 ==
    /\ BackwardReturned /\ NoTies
    /\ layout.input = "NHWC" /\ layout.output = "NCHW"
    /\ \E c \in Threads : Claimed(c) /\ OutZ(c) # MinDepth(c)

(***************************************************************************)
(* Calls during which the device may fail.                                 *)
(***************************************************************************)
Kernels == {"project", "refine", "gradient"}
\* the builds: assert active, or compiled out by NDEBUG
Builds == BOOLEAN
\* (0, 0, 1) and (0, 0, 0)
FailPoints == { <<0, 0, Scale>>, <<0, 0, 0>> }

InitFail == InitCall({IntToFloat(-1)}, {Contiguous}, Builds, FailPoints)
NextFail == Next \/ \E k \in Kernels : DeviceFault(k)
\* Forward, then Backward if Forward returned, on a device that may fail.
SpecFail == InitFail /\ [][NextFail]_vars

\* the passes a printed diagnostic can stand for
PassesNamed(launcher) ==
    IF launcher = "OccMap_ForwardLauncher" THEN {"project", "refine"} ELSE {"gradient"}
\* the call that launched kernel k is over: it returned, or the process aborted
CallOver(k) ==
    IF k = "gradient"
       THEN host = "backward_done" \/ (host = "aborted" /\ Launched("gradient"))
       ELSE host \notin {"launch_project", "launch_refine", "forward_sync"}
\* the call that launched kernel k has returned 1
Returned(k) == IF k = "gradient" THEN BackwardReturned ELSE ForwardReturned

AbortsOnFailure == \A k \in Kernels : Failed(k) => ~Returned(k)
NotRetried ==
    \A k \in Kernels : Cardinality({i \in DOMAIN stream : stream[i] = k}) <= 1
DiagnosticNamesPass ==
    \A k \in Kernels :
        (Failed(k) /\ CallOver(k)) =>
            \E i \in DOMAIN diag : PassesNamed(diag[i]) = {k}
DiagnosticNamesLauncher ==
    \A k \in Kernels :
        (Failed(k) /\ CallOver(k)) =>
            \E i \in DOMAIN diag : k \in PassesNamed(diag[i])

(***************************************************************************)
(* C12.  Fatal execution failures, as stated: when the device fails in     *)
(* pass 1, in pass 2 or in the backward pass, the call does not return     *)
(* success, no kernel is launched again, and the diagnostic printed        *)
(* identifies the pass that failed.                                        *)
(***************************************************************************)
OriginalC12 == AbortsOnFailure /\ NotRetried /\ DiagnosticNamesPass

\* What does hold: no retry; a diagnostic naming the launcher (Forward or
\* Backward) of the failed kernel; an abort in the builds that keep assert.
FailureHandling ==
    /\ NotRetried
    /\ DiagnosticNamesLauncher
    /\ ~ndebug => AbortsOnFailure

\* In a build with NDEBUG pass 1 failed, and Forward has returned 1 all the
\* same, having printed a diagnostic that names the forward launcher only.
WitnessC12 ==
    /\ ndebug /\ Failed("project") /\ host = "forward_done"
    /\ diag = <<"OccMap_ForwardLauncher">>

(***************************************************************************)
(* The device functions called on their own.  No call of Forward or        *)
(* Backward is under way: the grids are empty and the host is idle.        *)
(***************************************************************************)
call == <<inputs, errors, output_data, indexMap_data, gradInput_data, host, stream,
          pcP, pcR, pcG, zo, gvali, acc>>

Idle ==
    /\ batchSize = 1 /\ nrows = 1 /\ ncols = 1
    /\ fy = 0 /\ fx = 0 /\ cy = 0 /\ cx = 0
    /\ layout = Contiguous
    /\ ndebug = FALSE
    /\ input_data = <<>> /\ output_data = <<>> /\ indexMap_data = <<>>
    /\ gradOutput_data = <<>> /\ gradInput_data = <<>>
    /\ indexMap0 = <<>> /\ output0 = <<>>
    /\ host = "idle"
    /\ stream = <<>>
    /\ pcP = <<>> /\ pcR = <<>> /\ pcG = <<>>
    /\ zo = <<>> /\ gvali = <<>>
    /\ acc = {}
    /\ err = "cudaSuccess" /\ failed = <<>> /\ diag = <<>>
    /\ unit = NoCall

\* getCoordinates_1(tid, nrows, ncols, batch, row, col) for a work item of a
\* grid of bs x nr x nc cells
GetCoordinates ==
    /\ \E bs \in 1 .. MaxDim, nr \in 1 .. MaxDim, nc \in 1 .. MaxDim :
          \E tid \in 0 .. (bs * nr * nc - 1) :
              unit' = [f |-> "getCoordinates_1", batchSize |-> bs, nrows |-> nr,
                       ncols |-> nc, tid |-> tid, out |-> getCoordinates_1(tid, nr, nc)]
    /\ UNCHANGED call

SpecIndexer == Idle /\ [][GetCoordinates]_vars

\* the work items and the cells of the grid of the call in unit
UnitIds == 0 .. (unit.batchSize * unit.nrows * unit.ncols - 1)
UnitCells ==
    [batch : 0 .. (unit.batchSize - 1), row : 0 .. (unit.nrows - 1),
     col : 0 .. (unit.ncols - 1)]

(***************************************************************************)
(* C13.  getCoordinates_1 is a bijection: for every id in                  *)
(* [0, batch*rows*cols) it returns col = id % cols, row = (id / cols) %    *)
(* rows, batch = id / (cols*rows), each within its extent, with            *)
(* id = (batch*rows + row)*cols + col; no other id of the grid gets the    *)
(* same (batch, row, col), and every cell of the grid is the result of     *)
(* some id.                                                                *)
(***************************************************************************)
TheoremC13 ==
    unit.f = "getCoordinates_1" =>
        /\ unit.out.col = unit.tid % unit.ncols
        /\ unit.out.row = (unit.tid \div unit.ncols) % unit.nrows
        /\ unit.out.batch = unit.tid \div (unit.ncols * unit.nrows)
        /\ unit.out \in UnitCells
        /\ unit.tid = (unit.out.batch * unit.nrows + unit.out.row) * unit.ncols
                          + unit.out.col
        /\ \A j \in UnitIds :
              getCoordinates_1(j, unit.nrows, unit.ncols) = unit.out => j = unit.tid
        /\ \A p \in UnitCells :
              \E j \in UnitIds : getCoordinates_1(j, unit.nrows, unit.ncols) = p

\* The decomposition of a work item with batch, row and column all above 0,
\* in a grid with more columns than rows.
WitnessC13 ==
    /\ unit.f = "getCoordinates_1"
    /\ unit.nrows < unit.ncols
    /\ unit.out.batch > 0 /\ unit.out.row > 0 /\ unit.out.col > 0

(***************************************************************************)
(* Calls on points that are not projected.                                 *)
(***************************************************************************)
\* (0, 0, 1) lands on column 0; (0, 0, -1) and (0, 0, 0) have no valid depth;
\* (-3/4, 0, 1) projects left of the image; (1/4, 0, 1) lands on column 1,
\* right of the image when it has one column
SkipPoints ==
    { <<0, 0, Scale>>, <<0, 0, -Scale>>, <<0, 0, 0>>,
      <<-(3 * (Scale \div 4)), 0, Scale>>, <<Scale \div 4, 0, Scale>> }

InitSkip == InitCall({IntToFloat(-1)}, {Contiguous}, {FALSE}, SkipPoints)
SpecSkip == InitSkip /\ [][Next]_vars

\* Point t has z <= 0, or its rounded projection is no cell of the image.
Excluded(t) == \A c \in Threads : ~Lands(t, c)
WritesOf(t, k) == {a \in acc : a.t = t /\ a.k = k /\ a.op = "w"}

(***************************************************************************)
(* C14.  Silent exclusion: a point with z <= 0, or whose rounded           *)
(* projection is outside the image, writes nothing in pass 1, writes       *)
(* nothing in pass 2 but the reset to 0 of its own cell's depth, is        *)
(* recorded by no index-map entry and gets no gradient written in          *)
(* Backward (the index map having been pre-filled with "no winner").       *)
(***************************************************************************)
TheoremC14 ==
    \A t \in Threads :
        Excluded(t) =>
            /\ WritesOf(t, "project") = {}
            /\ \A a \in WritesOf(t, "refine") :
                  /\ a.buf = "output" /\ a.off = OutputAt(t, 2)
                  /\ output0[a.off] = HUGE_VALF /\ output_data[a.off] = 0
            /\ \A c \in Threads : Winner(c) # OffsetOf(t)
            /\ \A ch \in 0 .. 2 : ~GradWritten(t, ch) /\ GradInAt(t, ch) = 0

\* Both calls have returned: a point of negative depth and a point that
\* projects outside the image were left out, the former's own cell was
\* reset, and another point was recorded and routed.
WitnessC14 ==
    /\ BackwardReturned
    /\ \E t \in Threads : PointZ(t) < 0 /\ WritesOf(t, "refine") # {}
    /\ \E t \in Threads : PointZ(t) > 0 /\ Excluded(t)
    /\ \E t \in Threads : Recorded(t) /\ GradWritten(t, 0)

(***************************************************************************)
(* C15.  Non-winning cells, as stated: after pass 2, every output cell     *)
(* whose depth still held the sentinel when pass 2 began (no point with    *)
(* z > 0 projects onto it) has x, y and z set to 0, whatever its x and y   *)
(* held before the call.                                                   *)
(***************************************************************************)
OriginalC15 ==
    Pass2Complete =>
        \A c \in Threads :
            ~Claimed(c) => (OutX(c) = 0 /\ OutY(c) = 0 /\ OutZ(c) = 0)

\* What does hold: pass 2 zeroes the depth of such a cell and leaves its x
\* and y as the caller handed them over.
UnclaimedKeepsXY ==
    Pass2Complete =>
        \A c \in Threads :
            ~Claimed(c) => /\ OutZ(c) = 0
                           /\ OutX(c) = output0[OutputAt(c, 0)]
                           /\ OutY(c) = output0[OutputAt(c, 1)]

\* Pass 2 is over: a cell no point projects onto has depth 0, and its x and
\* y still hold what was there before the call, which is not 0.
WitnessC15 ==
    /\ Pass2Complete
    /\ \E c \in Threads :
          /\ ~Claimed(c) /\ OutZ(c) = 0 /\ output0[OutputAt(c, 2)] = HUGE_VALF
          /\ OutX(c) # 0 /\ OutY(c) # 0

(***************************************************************************)
(* The atomic minimum on one depth word.                                   *)
(***************************************************************************)
\* the depths that pass the filter z > 0: every multiple of 1/Scale up to
\* MaxDepth/Scale
Depths == 1 .. MaxDepth

\* atomicMin((unsigned int*) addr, __float_as_int(z)) on a word that holds
\* the sentinel at first and then what the earlier updates left
AtomicUpdate ==
    /\ \E z \in Depths :
          LET old == IF unit.f = "atomicMin" THEN unit.out ELSE HUGE_VALF
          IN  unit' = [f |-> "atomicMin", old |-> old, val |-> z,
                       out |-> AtomicMin(old, z)]
    /\ UNCHANGED call

SpecEncoding == Idle /\ [][AtomicUpdate]_vars

(***************************************************************************)
(* C16.  Order preservation of the atomic-min encoding: for the depth z >  *)
(* 0 given to the atomic update and the content of the word (a depth > 0   *)
(* or the sentinel +infinity), the bit patterns compare as unsigned        *)
(* integers the way the floats compare, so the word ends with the smaller  *)
(* float, and the sentinel never stays in place of a finite depth.         *)
(***************************************************************************)
TheoremC16 ==
    unit.f = "atomicMin" =>
        /\ (FloatAsInt(unit.old) < FloatAsInt(unit.val)) <=> (unit.old < unit.val)
        /\ (FloatAsInt(unit.old) = FloatAsInt(unit.val)) <=> (unit.old = unit.val)
        /\ unit.out = IF unit.val < unit.old THEN unit.val ELSE unit.old
        /\ unit.out # HUGE_VALF

\* The word held a depth of another binary exponent than the smaller depth
\* that replaced it; and, in another state, the sentinel was replaced.
WitnessC16 ==
    /\ unit.f = "atomicMin"
    /\ unit.old # HUGE_VALF
    /\ unit.val < unit.old /\ unit.out = unit.val
    /\ ILog2(unit.val) < ILog2(unit.old)
    /\ unit.val % 2 = 1

(***************************************************************************)
(* The unrounded projection of a point, from the logical input.            *)
(***************************************************************************)
PixX(t) == ProjectX(PointX(t), PointZ(t))
PixY(t) == ProjectY(PointY(t), PointZ(t))

(***************************************************************************)
(* C17.  Committed coordinates, as stated: after pass 2, in every          *)
(* interleaving, ties on z included, the x and y of an output cell with a  *)
(* recorded winner are the unrounded xpix and ypix of the very point the   *)
(* index map records for the cell.                                         *)
(***************************************************************************)
OriginalC17 ==
    Pass2Complete =>
        \A c \in Threads :
            HasWinner(c) =>
                \E t \in Threads :
                    /\ OffsetOf(t) = Winner(c)
                    /\ OutX(c) = PixX(t) /\ OutY(c) = PixY(t)

(***************************************************************************)
(* C17, amended.  After pass 2, in every interleaving, for an output cell  *)
(* with a recorded winner: the index map records one of the points that    *)
(* land on the cell at its minimal depth, x is the unrounded xpix of one   *)
(* of these points and y the unrounded ypix of one of them; they are the   *)
(* same point when a single point lands on the cell at its minimal depth,  *)
(* and may be different points when several tie.                           *)
(***************************************************************************)
TheoremC17 ==
    Pass2Complete =>
        \A c \in Threads :
            HasWinner(c) =>
                /\ \E t \in Nearest(c) : OffsetOf(t) = Winner(c)
                /\ \E t \in Nearest(c) : OutX(c) = PixX(t)
                /\ \E t \in Nearest(c) : OutY(c) = PixY(t)
                /\ Cardinality(Nearest(c)) = 1 =>
                      \E t \in Nearest(c) :
                          /\ OffsetOf(t) = Winner(c)
                          /\ OutX(c) = PixX(t) /\ OutY(c) = PixY(t)

\* Pass 2 is over: one cell holds the x of one of two tied points and the
\* index of the other; another cell holds the x, y and index of its single
\* nearest point, which is not the cell's own point.
WitnessC17 ==
    /\ Pass2Complete
    /\ \E c \in Threads : \E t, u \in Nearest(c) :
          /\ Winner(c) = OffsetOf(t) /\ OutX(c) = PixX(u) /\ PixX(u) # PixX(t)
    /\ \E c \in Threads : \E t \in Nearest(c) :
          /\ Cardinality(Nearest(c)) = 1 /\ t # c
          /\ Winner(c) = OffsetOf(t) /\ OutX(c) = PixX(t) /\ OutY(c) = PixY(t)

(***************************************************************************)
(* C18.  Pass-2 reads are stable: the only store of pass 2 into the depth  *)
(* channel is the reset to 0 of the sentinel in a work item's own cell; a  *)
(* cell some work item resets is read by no winner check (zo == z at the   *)
(* target cell); hence the depth a winner check has read is the minimum    *)
(* pass 1 left there, in every interleaving of pass 2.                     *)
(***************************************************************************)
DepthResets == {a \in acc : a.k = "refine" /\ a.op = "w" /\ DepthChannel(a)}

TheoremC18 ==
    /\ \A a \in DepthResets :
          /\ a.off = OutputAt(a.t, 2)
          /\ ~Claimed(a.t)
          /\ output_data[a.off] = 0
    /\ \A t, c \in Threads :
          Lands(t, c) =>
              /\ \A a \in DepthResets : a.off # OutputAt(c, 2)
              /\ pcR[t] \in {"wx", "wy", "wim", "done"} =>
                    (zo[t] = MinDepth(c) /\ zo[t] = OutZ(c))

\* In the middle of pass 2: a work item has reset its own cell, another has
\* passed its winner check at a cell that is not its own, a third has not
\* started.
WitnessC18 ==
    /\ DepthResets # {}
    /\ \E t, c \in Threads : Lands(t, c) /\ t # c /\ pcR[t] = "wx" /\ zo[t] = PointZ(t)
    /\ \E u \in Threads : pcR[u] = "start"

(***************************************************************************)
(* An input offset through the float-typed index map.                      *)
(***************************************************************************)
\* a contiguous input grid of 1024 x 1024 cells per channel
BigGrid == [nrows |-> 1024, ncols |-> 1024]
\* long vali = b*is0 + r*is2 + c*is3 in that grid
BigOffset(b, r, c) == b * (3 * BigGrid.nrows * BigGrid.ncols) + r * BigGrid.ncols + c

\* refineOutput stores vali into the index map (a float); projectionGradient
\* reads the entry back as a long
StoreAndLoad ==
    /\ \E b \in 0 .. MaxBatch, r \in {0, 1, BigGrid.nrows - 1},
          c \in {0, 1, 2, 3, BigGrid.ncols - 2, BigGrid.ncols - 1} :
          unit' = [f |-> "indexMap", batch |-> b, vali |-> BigOffset(b, r, c),
                   entry |-> IntToFloat(BigOffset(b, r, c)),
                   out |-> FloatToLong(IntToFloat(BigOffset(b, r, c)))]
    /\ UNCHANGED call

SpecRoundTrip == Idle /\ [][StoreAndLoad]_vars

(***************************************************************************)
(* C19.  Index-map round trip, as stated: for every flat input offset      *)
(* pass 2 can store, the value stored into the float-typed index map and   *)
(* read back by Backward as a long is the original offset, and is never    *)
(* the "no winner" value -1.                                               *)
(***************************************************************************)
OriginalC19 ==
    unit.f = "indexMap" => (unit.out = unit.vali /\ unit.out # -1)

\* What does hold: the round trip is exact for the offsets below 2^24, and
\* no offset reads back as -1.
RoundTripBelow24Bits ==
    unit.f = "indexMap" =>
        /\ unit.vali < 2 ^ 24 => unit.out = unit.vali
        /\ unit.out # -1

\* An odd offset above 2^24 (a point of the seventh batch element or later)
\* has come back from the index map as a neighbouring offset.
WitnessC19 ==
    /\ unit.f = "indexMap"
    /\ unit.vali > 2 ^ 24 /\ unit.vali % 2 = 1
    /\ unit.out # unit.vali

=============================================================================
